---- MODULE Spec2Model ----
(***************************************************************************)
(* paint-2d (src/src/main.rs): a terminal paint program.  PaintCursor is   *)
(* the cursor with its wrap-around movement, Paint2D the engine: the       *)
(* colour grid, the event loop of run() and the redraw.                    *)
(*                                                                         *)
(* Spec        the program: Paint2D::new, setup, run                       *)
(* FairSpec    Spec, with the program never stopping while it can step     *)
(* CursorSpec  PaintCursor alone: new(row, col, size) and its four moves   *)
(*             called with any distance up to the extent                   *)
(***************************************************************************)
EXTENDS Integers, Sequences, FiniteSets

VARIABLES
    pc,             \* where main()/run() stands
    running,        \* Paint2D.running
    row,            \* PaintCursor.row: the horizontal position
    col,            \* PaintCursor.col: the vertical position
    screen_rows,    \* PaintCursor.screen_rows: the vertical extent
    screen_cols,    \* PaintCursor.screen_cols: the horizontal extent
    color,          \* PaintCursor.color
    terminal_size,  \* Paint2D.terminal_size, <<cols, rows>>
    color_canvas,   \* Paint2D.color_canvas: a sequence of rows of cells
    overflow_checks,\* the build: TRUE panics on integer overflow, FALSE wraps
    raw_mode,       \* the terminal: raw input mode is enabled
    alt_screen,     \* the terminal: the alternate screen is entered
    error,          \* the io::Error main returns: where it arose, or "none"
    event,          \* the event last read in the current poll burst
    call            \* CursorSpec: the last two PaintCursor calls

vars == <<pc, running, row, col, screen_rows, screen_cols, color,
          terminal_size, color_canvas, overflow_checks, raw_mode, alt_screen,
          error, event, call>>

\* the resources setup acquires
termVars == <<raw_mode, alt_screen>>

cursorVars == <<row, col, screen_rows, screen_cols, color>>

----------------------------------------------------------------------------
(* Bounds of the model *)

\* terminal widths reported by the terminal: 1..MaxCols
MaxCols == 9
\* terminal heights reported by the terminal: 1..MaxRows
MaxRows == 3
\* cells a run paints
MaxPainted == 1
\* the terminal is at most MaxInitCols wide when the program starts
MaxInitCols == 1
\* CursorSpec: horizontal extents 1..MaxExtentW
MaxExtentW == 10
\* CursorSpec: vertical extents 1..MaxExtentH
MaxExtentH == 3

----------------------------------------------------------------------------
(* u16 arithmetic *)

U16 == 65536

\* a - b in u16, wrapped
WrapSub(a, b) == (a - b) % U16

\* a + b in u16, wrapped
WrapAdd(a, b) == (a + b) % U16

\* Option<Color>
None == "None"
White == "White"

NoEvent == [kind |-> "NoEvent", code |-> "", ctrl |-> FALSE, cols |-> 0, rows |-> 0]

KeyEvent(code, ctrl) ==
    [kind |-> "Key", code |-> code, ctrl |-> ctrl, cols |-> 0, rows |-> 0]

ResizeEvent(cols, rows) ==
    [kind |-> "Resize", code |-> "", ctrl |-> FALSE, cols |-> cols, rows |-> rows]

\* any event that is neither a key nor a resize (focus, mouse, paste)
OtherEvent == [kind |-> "Other", code |-> "", ctrl |-> FALSE, cols |-> 0, rows |-> 0]

\* CursorSpec keeps the last call and the one before it
NoCall == [op |-> "none", by |-> 0, from |-> 0,
           prev_op |-> "none", prev_by |-> 0, prev_from |-> 0]

----------------------------------------------------------------------------
(* PaintCursor.  Each move yields the new position v and whether one of its *)
(* u16 operations overflowed (ovf): a build with overflow checks panics     *)
(* there, a build without them goes on with the wrapped value v.            *)

\* left with the test r > by in place of r >= by
left_strict(r, cols, by) ==
    IF r > by
    THEN [v |-> r - by, ovf |-> FALSE]
    ELSE LET underflow == by - r
         IN  [v |-> WrapSub(cols, underflow), ovf |-> cols < underflow]

\* PaintCursor::left on (self.row, self.screen_cols)
left(r, cols, by) ==
    IF r >= by
    THEN [v |-> r - by, ovf |-> FALSE]
    ELSE LET underflow == by - r
         IN  [v |-> WrapSub(cols, underflow), ovf |-> cols < underflow]

\* right with the test r <= screen_cols - by in place of r < screen_cols - by
right_inclusive(r, cols, by) ==
    IF r <= WrapSub(cols, by)
    THEN [v |-> WrapAdd(r, by), ovf |-> cols < by \/ r + by >= U16]
    ELSE LET gap == WrapSub(cols, r)
             overflow == WrapSub(by, gap)
         IN  [v |-> overflow, ovf |-> cols < by \/ cols < r \/ by < gap]

\* PaintCursor::right on (self.row, self.screen_cols)
right(r, cols, by) ==
    IF r < WrapSub(cols, by)
    THEN [v |-> WrapAdd(r, by), ovf |-> cols < by \/ r + by >= U16]
    ELSE LET gap == WrapSub(cols, r)
             overflow == WrapSub(by, gap)
         IN  [v |-> overflow, ovf |-> cols < by \/ cols < r \/ by < gap]

\* PaintCursor::up on (self.col, self.screen_rows)
up(c, rows, by) ==
    IF c >= by
    THEN [v |-> c - by, ovf |-> FALSE]
    ELSE LET underflow == by - c
         IN  [v |-> WrapSub(rows, underflow), ovf |-> rows < underflow]

\* PaintCursor::down on (self.col, self.screen_rows)
down(c, rows, by) ==
    IF c < WrapSub(rows, by)
    THEN [v |-> WrapAdd(c, by), ovf |-> rows < by \/ c + by >= U16]
    ELSE LET gap == WrapSub(rows, c)
             overflow == WrapSub(by, gap)
         IN  [v |-> overflow, ovf |-> rows < by \/ rows < c \/ by < gap]

\* PaintCursor::set_canvas_size: the extents only, the position stays
set_canvas_size(size) ==
    /\ screen_cols' = size[1]
    /\ screen_rows' = size[2]
    /\ UNCHANGED <<row, col, color>>

----------------------------------------------------------------------------
(* Paint2D *)

\* the sizes the terminal reports
Sizes == (1..MaxCols) \X (1..MaxRows)

\* the sizes terminal::size() reports at startup; (1, 1) is also the fallback
InitSizes == (1..MaxInitCols) \X (1..MaxRows)

\* vec![vec![None; canvas_size.0]; canvas_size.1]
EmptyCanvas(canvas_size) ==
    [r \in 1..canvas_size[2] |-> [c \in 1..canvas_size[1] |-> None]]

\* the cells of the grid that hold a colour
Painted(canvas) ==
    UNION {{<<r, c>> : c \in {k \in 1..Len(canvas[r]) : canvas[r][k] # None}} :
           r \in 1..Len(canvas)}

\* color_canvas.get(r).and_then(|row| row.get(c)).copied().flatten()
CellAt(canvas, r, c) ==
    IF r < Len(canvas) /\ c < Len(canvas[r + 1]) THEN canvas[r + 1][c + 1] ELSE None

\* Paint2D::new(&terminal_size), after terminal::size().unwrap_or((1, 1))
Init ==
    /\ \E size \in InitSizes :
         LET canvas_size == <<size[1], size[2] - 1>>
         IN  /\ terminal_size = size
             /\ screen_cols = canvas_size[1]
             /\ screen_rows = canvas_size[2]
             /\ color_canvas = EmptyCanvas(canvas_size)
    /\ row = 0
    /\ col = 0
    /\ color = White
    /\ running = TRUE
    /\ overflow_checks \in BOOLEAN
    /\ pc = "setup"
    /\ raw_mode = FALSE
    /\ alt_screen = FALSE
    /\ error = "none"
    /\ event = NoEvent
    /\ call = NoCall

\* Paint2D::setup: the terminal calls succeed, and run() is entered
Setup ==
    /\ pc = "setup"
    /\ raw_mode' = TRUE
    /\ alt_screen' = TRUE
    /\ pc' = "while"
    /\ UNCHANGED <<running, cursorVars, terminal_size, color_canvas,
                   overflow_checks, error, event, call>>

\* Paint2D::setup: one of its terminal calls fails and main returns the error.
\* done is the number of calls that succeeded before it: 0 when
\* enable_raw_mode fails, 1 when EnterAlternateScreen fails, 2 for a later one.
SetupFails(done) ==
    /\ pc = "setup"
    /\ raw_mode' = (done >= 1)
    /\ alt_screen' = (done >= 2)
    /\ pc' = "failed"
    /\ error' = "setup"
    /\ UNCHANGED <<running, cursorVars, terminal_size, color_canvas,
                   overflow_checks, event, call>>

\* run(): while self.running.load(..)
WhileRunning ==
    /\ pc = "while"
    /\ pc' = IF running THEN "poll" ELSE "returned"
    /\ UNCHANGED <<running, cursorVars, terminal_size, color_canvas,
                   overflow_checks, termVars, error, event, call>>

\* The terminal delivers events while the cursor is at a position of the
\* largest terminal; once a wrapped overflow has taken it further, poll times out.
Near == row < MaxCols /\ col < MaxRows

\* the arm of 'q' without its store to running
KeyQ_NoStore ==
    /\ pc = "poll"
    /\ Near
    /\ event' = KeyEvent("q", FALSE)
    /\ pc' = "handled"
    /\ UNCHANGED <<running, cursorVars, terminal_size, color_canvas,
                   overflow_checks, termVars, error, call>>

\* the arm of KeyCode::Char('q')
KeyQ ==
    /\ pc = "poll"
    /\ Near
    /\ event' = KeyEvent("q", FALSE)
    /\ running' = FALSE
    /\ pc' = "handled"
    /\ UNCHANGED <<cursorVars, terminal_size, color_canvas, overflow_checks, termVars, error, call>>

\* the arm of 'c' without its test of the CONTROL modifier
KeyC_AnyModifier(ctrl) ==
    /\ pc = "poll"
    /\ Near
    /\ event' = KeyEvent("c", ctrl)
    /\ running' = FALSE
    /\ pc' = "handled"
    /\ UNCHANGED <<cursorVars, terminal_size, color_canvas, overflow_checks,
                   termVars, error, call>>

\* the arm of KeyCode::Char('c'): only with CONTROL does it stop the loop
KeyC(ctrl) ==
    /\ pc = "poll"
    /\ Near
    /\ event' = KeyEvent("c", ctrl)
    /\ running' = IF ctrl THEN FALSE ELSE running
    /\ pc' = "handled"
    /\ UNCHANGED <<cursorVars, terminal_size, color_canvas, overflow_checks, termVars, error, call>>

\* the horizontal step: 8 with CONTROL, else 1
HStep(ctrl) == IF ctrl THEN 8 ELSE 1

\* the vertical step: 2 with CONTROL, else 1
VStep(ctrl) == IF ctrl THEN 2 ELSE 1

\* a move's outcome on the horizontal position: a panic, or the new row
MoveRow(res) ==
    IF res.ovf /\ overflow_checks
    THEN pc' = "panicked" /\ UNCHANGED row
    ELSE pc' = "handled" /\ row' = res.v

\* a move's outcome on the vertical position: a panic, or the new col
MoveCol(res) ==
    IF res.ovf /\ overflow_checks
    THEN pc' = "panicked" /\ UNCHANGED col
    ELSE pc' = "handled" /\ col' = res.v

\* the arm of KeyCode::Left
KeyLeft(ctrl) ==
    /\ pc = "poll"
    /\ Near
    /\ event' = KeyEvent("Left", ctrl)
    /\ MoveRow(left(row, screen_cols, HStep(ctrl)))
    /\ UNCHANGED <<running, col, screen_rows, screen_cols, color, terminal_size,
                   color_canvas, overflow_checks, termVars, error, call>>

\* the arm of KeyCode::Right
KeyRight(ctrl) ==
    /\ pc = "poll"
    /\ Near
    /\ event' = KeyEvent("Right", ctrl)
    /\ MoveRow(right(row, screen_cols, HStep(ctrl)))
    /\ UNCHANGED <<running, col, screen_rows, screen_cols, color, terminal_size,
                   color_canvas, overflow_checks, termVars, error, call>>

\* the arm of KeyCode::Up
KeyUp(ctrl) ==
    /\ pc = "poll"
    /\ Near
    /\ event' = KeyEvent("Up", ctrl)
    /\ MoveCol(up(col, screen_rows, VStep(ctrl)))
    /\ UNCHANGED <<running, row, screen_rows, screen_cols, color, terminal_size,
                   color_canvas, overflow_checks, termVars, error, call>>

\* the arm of KeyCode::Down
KeyDown(ctrl) ==
    /\ pc = "poll"
    /\ Near
    /\ event' = KeyEvent("Down", ctrl)
    /\ MoveCol(down(col, screen_rows, VStep(ctrl)))
    /\ UNCHANGED <<running, row, screen_rows, screen_cols, color, terminal_size,
                   color_canvas, overflow_checks, termVars, error, call>>

\* whether color_canvas[col][row] is an element of the grid
InGrid(canvas, c, r) == c < Len(canvas) /\ r < Len(canvas[c + 1])

\* the arm of KeyCode::Char(' '): the indexing panics outside the grid
KeySpace ==
    /\ pc = "poll"
    /\ Near
    /\ event' = KeyEvent(" ", FALSE)
    /\ IF InGrid(color_canvas, col, row)
       THEN /\ \/ Cardinality(Painted(color_canvas)) < MaxPainted
               \/ color_canvas[col + 1][row + 1] # None
            /\ color_canvas' = [color_canvas EXCEPT ![col + 1][row + 1] = color]
            /\ pc' = "handled"
       ELSE /\ pc' = "panicked"
            /\ UNCHANGED color_canvas
    /\ UNCHANGED <<running, cursorVars, terminal_size, overflow_checks, termVars, error, call>>

\* the arm _ => {} of the key match: any other key
KeyOther ==
    /\ pc = "poll"
    /\ Near
    /\ event' = KeyEvent("x", FALSE)
    /\ pc' = "handled"
    /\ UNCHANGED <<running, cursorVars, terminal_size, color_canvas,
                   overflow_checks, termVars, error, call>>

\* the arm of Event::Resize(cols, rows)
Resize(cols, rows) ==
    /\ pc = "poll"
    /\ Near
    /\ event' = ResizeEvent(cols, rows)
    /\ terminal_size' = <<cols, rows>>
    /\ set_canvas_size(<<cols, rows - 1>>)
    /\ pc' = "handled"
    /\ UNCHANGED <<running, color_canvas, overflow_checks, termVars, error, call>>

\* the arm _ => {} of the event match: focus, mouse, paste
EventOther ==
    /\ pc = "poll"
    /\ Near
    /\ event' = OtherEvent
    /\ pc' = "handled"
    /\ UNCHANGED <<running, cursorVars, terminal_size, color_canvas,
                   overflow_checks, termVars, error, call>>

\* a loop that redraws after every event instead of polling again
NextPoll_Redraws ==
    /\ pc = "handled"
    /\ pc' = "redraw"
    /\ event' = NoEvent
    /\ UNCHANGED <<running, cursorVars, terminal_size, color_canvas,
                   overflow_checks, termVars, error, call>>

\* the end of the match: the event is dropped, back to while event::poll(..)
NextPoll ==
    /\ pc = "handled"
    /\ pc' = "poll"
    /\ event' = NoEvent
    /\ UNCHANGED <<running, cursorVars, terminal_size, color_canvas,
                   overflow_checks, termVars, error, call>>

\* event::poll(50 ms) returns false: the burst is over
PollTimeout ==
    /\ pc = "poll"
    /\ pc' = "redraw"
    /\ UNCHANGED event
    /\ UNCHANGED <<running, cursorVars, terminal_size, color_canvas,
                   overflow_checks, termVars, error, call>>

\* event::poll or event::read fails: run() returns the error
PollFails ==
    /\ pc = "poll"
    /\ pc' = "failed"
    /\ error' = "poll"
    /\ UNCHANGED <<running, cursorVars, terminal_size, color_canvas,
                   overflow_checks, termVars, event, call>>

\* Paint2D::draw_cursor: MoveTo(row - 1 or 0 when that is negative, col), then
\* the three glyphs; each is given as <<screen column, screen line>>
draw_cursor(r, c) ==
    LET start == IF r - 1 < 0 THEN 0 ELSE r - 1
    IN  [left |-> <<start, c>>, x |-> <<start + 1, c>>, right |-> <<start + 2, c>>]

\* what redraw_screen writes: the cells of lines 0..terminal_size.1 - 2 over
\* columns 0..terminal_size.0 - 1, then the cursor glyphs on top
Frame ==
    [cells |-> [r \in 1..(terminal_size[2] - 1) |->
                   [c \in 1..terminal_size[1] |-> CellAt(color_canvas, r - 1, c - 1)]],
     cursor |-> draw_cursor(row, col)]

\* a redraw that also puts the paint cursor where it put the terminal's: at 0
RedrawScreen_MovesCursor ==
    /\ pc = "redraw"
    /\ pc' = "flush"
    /\ row' = 0
    /\ UNCHANGED <<running, col, screen_rows, screen_cols, color, terminal_size,
                   color_canvas, overflow_checks, termVars, error, event, call>>

\* Paint2D::redraw_screen: writes the frame, changes nothing of the engine
RedrawScreen ==
    /\ pc = "redraw"
    /\ pc' = "flush"
    /\ UNCHANGED <<running, cursorVars, terminal_size, color_canvas,
                   overflow_checks, termVars, error, event, call>>

\* a failed write of redraw_screen that is tried again instead of returned
RedrawFails_Retry ==
    /\ pc = "redraw"
    /\ pc' = "redraw"
    /\ error' = "redraw"
    /\ UNCHANGED <<running, cursorVars, terminal_size, color_canvas,
                   overflow_checks, termVars, event, call>>

\* a write of redraw_screen fails: run() returns the error
RedrawFails ==
    /\ pc = "redraw"
    /\ pc' = "failed"
    /\ error' = "redraw"
    /\ UNCHANGED <<running, cursorVars, terminal_size, color_canvas,
                   overflow_checks, termVars, event, call>>

\* self.stdout.flush(), and back to the loop's test
Flush ==
    /\ pc = "flush"
    /\ pc' = "while"
    /\ UNCHANGED <<running, cursorVars, terminal_size, color_canvas,
                   overflow_checks, termVars, error, event, call>>

\* the flush fails: run() returns the error
FlushFails ==
    /\ pc = "flush"
    /\ pc' = "failed"
    /\ error' = "flush"
    /\ UNCHANGED <<running, cursorVars, terminal_size, color_canvas,
                   overflow_checks, termVars, event, call>>

\* impl Drop for Paint2D, run when main returns (Ok or Err) and when a panic
\* unwinds: raw mode is disabled; LeaveAlternateScreen is commented out
Drop ==
    /\ pc \in {"returned", "failed", "panicked"}
    /\ pc' = "exited"
    /\ raw_mode' = FALSE
    /\ UNCHANGED alt_screen
    /\ UNCHANGED <<running, cursorVars, terminal_size, color_canvas,
                   overflow_checks, error, event, call>>

\* one event read and handled by the match of run()
HandleEvent ==
    \/ KeyQ
    \/ \E ctrl \in BOOLEAN : KeyC(ctrl)
    \/ \E ctrl \in BOOLEAN : KeyLeft(ctrl)
    \/ \E ctrl \in BOOLEAN : KeyRight(ctrl)
    \/ \E ctrl \in BOOLEAN : KeyUp(ctrl)
    \/ \E ctrl \in BOOLEAN : KeyDown(ctrl)
    \/ KeySpace
    \/ KeyOther
    \/ \E size \in Sizes : Resize(size[1], size[2])
    \/ EventOther

Next ==
    \/ Setup
    \/ \E done \in 0..2 : SetupFails(done)
    \/ WhileRunning
    \/ HandleEvent
    \/ NextPoll
    \/ PollTimeout
    \/ PollFails
    \/ RedrawScreen
    \/ RedrawFails
    \/ Flush
    \/ FlushFails
    \/ Drop

Spec == Init /\ [][Next]_vars

\* the program keeps stepping while it can; the terminal decides what poll finds
FairSpec == Spec /\ WF_vars(Next)

----------------------------------------------------------------------------
(* PaintCursor on its own: new(row, col, screen_size) at any position of    *)
(* any extent, then left, right, up and down with any distance from 1 to    *)
(* the extent of the axis.  call records the last call and the one before.  *)

\* PaintCursor::new(row, col, screen_size)
CursorInit ==
    /\ \E w \in 1..MaxExtentW, h \in 1..MaxExtentH :
         /\ screen_cols = w
         /\ screen_rows = h
         /\ row \in 0..(w - 1)
         /\ col \in 0..(h - 1)
         /\ terminal_size = <<w, h + 1>>
    /\ color = White
    /\ color_canvas = <<>>
    /\ running = TRUE
    /\ overflow_checks \in BOOLEAN
    /\ pc = "cursor"
    /\ raw_mode = FALSE
    /\ alt_screen = FALSE
    /\ error = "none"
    /\ event = NoEvent
    /\ call = NoCall

\* the record of a call op(by) made at position from
Called(op, by, from) ==
    [op |-> op, by |-> by, from |-> from,
     prev_op |-> call.op, prev_by |-> call.by, prev_from |-> call.from]

\* cursor.left(by)
CursorLeft(by) ==
    /\ pc = "cursor"
    /\ call' = Called("left", by, row)
    /\ LET res == left(row, screen_cols, by)
       IN  IF res.ovf /\ overflow_checks
           THEN pc' = "panicked" /\ UNCHANGED row
           ELSE row' = res.v /\ UNCHANGED pc
    /\ UNCHANGED <<running, col, screen_rows, screen_cols, color, terminal_size,
                   color_canvas, overflow_checks, termVars, error, event>>

\* cursor.right(by)
CursorRight(by) ==
    /\ pc = "cursor"
    /\ call' = Called("right", by, row)
    /\ LET res == right(row, screen_cols, by)
       IN  IF res.ovf /\ overflow_checks
           THEN pc' = "panicked" /\ UNCHANGED row
           ELSE row' = res.v /\ UNCHANGED pc
    /\ UNCHANGED <<running, col, screen_rows, screen_cols, color, terminal_size,
                   color_canvas, overflow_checks, termVars, error, event>>

\* cursor.up(by)
CursorUp(by) ==
    /\ pc = "cursor"
    /\ call' = Called("up", by, col)
    /\ LET res == up(col, screen_rows, by)
       IN  IF res.ovf /\ overflow_checks
           THEN pc' = "panicked" /\ UNCHANGED col
           ELSE col' = res.v /\ UNCHANGED pc
    /\ UNCHANGED <<running, row, screen_rows, screen_cols, color, terminal_size,
                   color_canvas, overflow_checks, termVars, error, event>>

\* cursor.down(by)
CursorDown(by) ==
    /\ pc = "cursor"
    /\ call' = Called("down", by, col)
    /\ LET res == down(col, screen_rows, by)
       IN  IF res.ovf /\ overflow_checks
           THEN pc' = "panicked" /\ UNCHANGED col
           ELSE col' = res.v /\ UNCHANGED pc
    /\ UNCHANGED <<running, row, screen_rows, screen_cols, color, terminal_size,
                   color_canvas, overflow_checks, termVars, error, event>>

CursorNext ==
    \/ \E by \in 1..screen_cols : CursorLeft(by)
    \/ \E by \in 1..screen_cols : CursorRight(by)
    \/ \E by \in 1..screen_rows : CursorUp(by)
    \/ \E by \in 1..screen_rows : CursorDown(by)

CursorSpec == CursorInit /\ [][CursorNext]_vars

----------------------------------------------------------------------------
(* The claims *)

\* a step of run() that reads event e and runs its arm (to the end or to a panic)
Handles(e) == pc = "poll" /\ pc' \in {"handled", "panicked"} /\ event' = e

\* a step of run() that reads a resize event and runs its arm
HandlesResize == pc = "poll" /\ pc' = "handled" /\ event'.kind = "Resize"

\* C1: in every state reachable from startup the cursor is inside its canvas
\* extent: 0 <= row < screen_cols and 0 <= col < screen_rows.  Stated for the
\* extents that have an in-range position at all (a one-line terminal gives
\* screen_rows = 0, and no col is below 0).
C1_CursorInExtent ==
    (screen_cols >= 1 /\ screen_rows >= 1)
        => /\ 0 <= row /\ row < screen_cols
           /\ 0 <= col /\ col < screen_rows

\* C2: with 1 <= distance <= extent and an in-range position, left and up
\* return and yield (position - distance) mod extent, right and down return
\* and yield (position + distance) mod extent, the modulo being non-negative.
C2_MoveIsModular ==
    /\ pc = "cursor"
    /\ call.op = "left" => row = (call.from - call.by) % screen_cols
    /\ call.op = "right" => row = (call.from + call.by) % screen_cols
    /\ call.op = "up" => col = (call.from - call.by) % screen_rows
    /\ call.op = "down" => col = (call.from + call.by) % screen_rows

\* C2's case: extent 10, row 2, left(5) has wrapped to row 7
C2_Witness ==
    /\ screen_cols = 10
    /\ call.op = "left" /\ call.from = 2 /\ call.by = 5
    /\ row = 7

\* C3: left(distance) then right(distance) brings the row back to where it
\* was, the row in between being in range; likewise up then down for the col.
C3_LeftRightInverse ==
    /\ (call.prev_op = "left" /\ call.op = "right" /\ call.prev_by = call.by)
        => /\ row = call.prev_from
           /\ 0 <= call.from /\ call.from < screen_cols
    /\ (call.prev_op = "up" /\ call.op = "down" /\ call.prev_by = call.by)
        => /\ col = call.prev_from
           /\ 0 <= call.from /\ call.from < screen_rows

\* C3's case: a left that wrapped past column 0, undone by the right
C3_Witness ==
    /\ call.prev_op = "left" /\ call.op = "right" /\ call.prev_by = call.by
    /\ call.prev_from < call.by
    /\ call.from > call.prev_from
    /\ row = call.prev_from

\* the cursor is inside its extent
InExtent == row < screen_cols /\ col < screen_rows

\* C4: after a resize event is processed each cursor coordinate is its
\* previous value modulo the new extent of its axis.  Stated for a cursor that
\* was inside the old extent, and for a new extent of at least 1.
C4_ResizeWrapsCursor ==
    [][(HandlesResize /\ InExtent) =>
        /\ row' = row % screen_cols'
        /\ screen_rows' > 0 => col' = col % screen_rows']_vars

\* C5: the grid always has (viewport height - 1) rows of (viewport width)
\* cells, for the terminal size last reported.
C5_GridMatchesViewport ==
    /\ Len(color_canvas) = terminal_size[2] - 1
    /\ \A r \in 1..Len(color_canvas) : Len(color_canvas[r]) = terminal_size[1]

\* C6: after a resize event a cell inside the new extent holds what it held
\* if it was inside the old extent, and is empty otherwise.
C6_ResizeKeepsInBoundsOnly ==
    [][HandlesResize =>
        \A r \in 0..(screen_rows' - 1), c \in 0..(screen_cols' - 1) :
            CellAt(color_canvas', r, c) =
                IF r < screen_rows /\ c < screen_cols
                THEN CellAt(color_canvas, r, c)
                ELSE None]_vars

\* C7: a paint key in any reachable state sets the cell at [col][row] to the
\* cursor's colour and leaves every other cell and the cursor as they were.
\* Stated for the states in which the cursor is inside its extent.
C7_PaintSetsCell ==
    [][(Handles(KeyEvent(" ", FALSE)) /\ InExtent) =>
        /\ pc' = "handled"
        /\ CellAt(color_canvas', col, row) = color
        /\ \A r \in 0..MaxRows, c \in 0..MaxCols :
              <<r, c>> # <<col, row>>
                  => CellAt(color_canvas', r, c) = CellAt(color_canvas, r, c)
        /\ UNCHANGED <<row, col>>]_vars

\* C8: running starts true, a 'q' event and a Ctrl+C event each set it to
\* false, and no step takes it from false back to true.
C8_RunningOnlyStops ==
    /\ running = TRUE
    /\ [][/\ running = FALSE => running' = FALSE
          /\ Handles(KeyEvent("q", FALSE)) => running' = FALSE
          /\ Handles(KeyEvent("c", TRUE)) => running' = FALSE]_vars

\* C8's case: the arm of Ctrl+C has run and running is false
C8_Witness ==
    /\ pc = "handled"
    /\ event = KeyEvent("c", TRUE)
    /\ running = FALSE

\* C9: once running is false no later event changes the cursor position, the
\* canvas, the cursor extent or the recorded terminal size.
C9_NoEffectAfterStop ==
    [][running = FALSE =>
        UNCHANGED <<row, col, color_canvas, screen_cols, screen_rows,
                    terminal_size>>]_vars

\* C10: once running is false run() comes to an end, whatever events the
\* terminal keeps delivering.
C10_StopLeadsToReturn ==
    (running = FALSE) ~> (pc \in {"returned", "failed", "panicked"})

\* the engine's state: cursor, extents, canvas, terminal size, running flag
engineVars == <<cursorVars, terminal_size, color_canvas, running>>

\* C11: on every exit path after setup both resources are released before the
\* process ends: raw mode is disabled and the alternate screen is left.
C11_ResourcesReleased ==
    pc = "exited" => (raw_mode = FALSE /\ alt_screen = FALSE)

\* C12: a terminal failure in the loop (poll, read, a write of redraw, flush)
\* makes run() return that error at once: no retry, no further event, no
\* further redraw; a redraw either completes or ends the loop with the error.
C12_ErrorEndsRun ==
    /\ [](error # "none" => pc \in {"failed", "exited"})
    /\ [][/\ (error = "none" /\ error' # "none") => pc' = "failed"
          /\ pc = "failed" => (pc' = "exited" /\ UNCHANGED engineVars)
          /\ pc = "redraw" => pc' \in {"flush", "failed"}]_vars

\* C12's case: a write of redraw failed after a cell was painted, and run()
\* has returned the error
C12_Witness ==
    /\ pc = "failed"
    /\ error = "redraw"
    /\ Painted(color_canvas) # {}

\* C13: redraw only reads the engine state, so from one redraw to the next,
\* with no event handled in between, the engine state and the frame that a
\* redraw writes stay the same.
C13_RedrawOnlyReads ==
    [][(pc \in {"redraw", "flush", "while"} \/ (pc = "poll" /\ pc' = "redraw"))
        => (UNCHANGED engineVars /\ Frame' = Frame)]_vars

\* C13's case: a redraw has written a frame with a painted cell and a cursor
\* away from column 0
C13_Witness ==
    /\ pc = "flush"
    /\ Painted(color_canvas) # {}
    /\ row > 0

\* C14: at the end of every redraw, for every in-range cursor position, the
\* marker X is at screen column cursor.row and screen line cursor.col.
C14_MarkerAtCursor ==
    (pc = "flush" /\ InExtent) => Frame.cursor.x = <<row, col>>

\* C15: the cursor's extent is at least 1 on both axes in every reachable
\* state, for every initial terminal size and after every resize.
C15_ExtentAtLeastOne ==
    screen_cols >= 1 /\ screen_rows >= 1

\* C16: no u16 subtraction of left, right, up or down underflows, for any
\* directional key in any reachable state.  Stated for the states in which the
\* cursor is inside its extent.
C16_NoUnderflow ==
    [][InExtent => \A ctrl \in BOOLEAN :
        /\ Handles(KeyEvent("Left", ctrl))
              => ~left(row, screen_cols, HStep(ctrl)).ovf
        /\ Handles(KeyEvent("Right", ctrl))
              => ~right(row, screen_cols, HStep(ctrl)).ovf
        /\ Handles(KeyEvent("Up", ctrl))
              => ~up(col, screen_rows, VStep(ctrl)).ovf
        /\ Handles(KeyEvent("Down", ctrl))
              => ~down(col, screen_rows, VStep(ctrl)).ovf]_vars

\* C17: an iteration of the loop applies the pending events one after the
\* other and then redraws once and flushes: an event is followed by the next
\* poll, a redraw starts only when poll found nothing, and the next
\* iteration starts only after the flush.
C17_BatchThenRedraw ==
    [][/\ pc = "handled" => pc' = "poll"
       /\ pc' = "redraw" => pc = "poll"
       /\ pc' = "flush" => pc = "redraw"
       /\ pc' = "while" => pc \in {"setup", "flush"}
       /\ pc' = "poll" => pc \in {"while", "handled"}]_vars

\* C17's case: a batch with a paint and a 'q' has been applied and redrawn
C17_Witness ==
    /\ pc = "flush"
    /\ running = FALSE
    /\ Painted(color_canvas) # {}

\* C18: a directional key moves the cursor along one axis by its step (1, or
\* 8 horizontally and 2 vertically with Ctrl), wrapping, and leaves the other
\* coordinate, the canvas, the extents and running as they were.  Stated for
\* the states in which the cursor is inside its extent.
C18_DirectionalKeyStep ==
    [][InExtent => \A ctrl \in BOOLEAN :
        /\ Handles(KeyEvent("Left", ctrl))
              => /\ pc' = "handled"
                 /\ row' = (row - (IF ctrl THEN 8 ELSE 1)) % screen_cols
                 /\ UNCHANGED <<col, color_canvas, screen_cols, screen_rows, running>>
        /\ Handles(KeyEvent("Right", ctrl))
              => /\ pc' = "handled"
                 /\ row' = (row + (IF ctrl THEN 8 ELSE 1)) % screen_cols
                 /\ UNCHANGED <<col, color_canvas, screen_cols, screen_rows, running>>
        /\ Handles(KeyEvent("Up", ctrl))
              => /\ pc' = "handled"
                 /\ col' = (col - (IF ctrl THEN 2 ELSE 1)) % screen_rows
                 /\ UNCHANGED <<row, color_canvas, screen_cols, screen_rows, running>>
        /\ Handles(KeyEvent("Down", ctrl))
              => /\ pc' = "handled"
                 /\ col' = (col + (IF ctrl THEN 2 ELSE 1)) % screen_rows
                 /\ UNCHANGED <<row, color_canvas, screen_cols, screen_rows, running>>]_vars

\* C19: an unrecognized event ('c' without Ctrl, any other key, any event
\* that is neither key nor resize) is ignored: the arm ends without a panic
\* and running, cursor, canvas and extents are as they were.
C19_UnrecognizedIgnored ==
    [][(\/ Handles(KeyEvent("c", FALSE))
        \/ Handles(KeyEvent("x", FALSE))
        \/ Handles(OtherEvent))
        => (pc' = "handled" /\ UNCHANGED engineVars /\ error' = "none")]_vars

\* C19's case: 'c' without Ctrl has been handled and the loop still runs
C19_Witness ==
    /\ pc = "handled"
    /\ event = KeyEvent("c", FALSE)
    /\ running = TRUE

\* C20: whenever a paint key is processed, the index of the write is inside
\* the allocated grid.  Stated for the states in which the cursor is inside
\* its extent.
C20_PaintIndexInGrid ==
    [][(Handles(KeyEvent(" ", FALSE)) /\ InExtent)
        => InGrid(color_canvas, col, row)]_vars

====
